---- MODULE Spec2Model ----
(***************************************************************************)
(* Model of the valuation engine of Intrinsic-value-calc:                  *)
(*   src/Intrinsic-value-app.py  classify_business, the series helpers     *)
(*     (_avg_last_n, compute_free_cash_flow_series), the three valuation   *)
(*     models, blended_fair_value and the script that chains them;         *)
(*   src/app.py                  SmartValuer.                              *)
(* Python floats are modelled as exact rationals (no rounding), extended   *)
(* with None, nan, +/-inf and a raised exception.  Python strings are      *)
(* modelled as sequences of one-character strings.                         *)
(***************************************************************************)
EXTENDS Integers, Sequences, FiniteSets, TLC

VARIABLES
    pc,               \* position in the script of Intrinsic-value-app.py
    info,             \* info dict: sector, industry, longName (lines 410, 427)
    biz,              \* biz = classify_business(info) (line 427)
    r, g1, gT, years, tax_rate,   \* assumptions (lines 430-442)
    shares,           \* line 421
    total_debt, total_cash,       \* lines 445-446
    net_cash,         \* lines 447-449
    bvps, roe,        \* lines 451-455
    cashflow,         \* line 414: the cash-flow statement
    fcf_series, fcf_src,          \* line 458
    ebit_series,      \* line 459
    fcf_norm, ebit_norm,          \* lines 461-463
    dcf_val, dcf_det, \* line 471
    epv_val, epv_det, \* line 499
    pb_val, pb_det,   \* line 524
    model_values,     \* lines 466-533
    raw_blend, win_blend, weights_used, values_used,   \* line 545
    intelligent_fair, \* line 547
    mos, mos_buy,     \* lines 394, 548
    sv,               \* app.py: the SmartValuer's fetched data (lines 10-22)
    confidence,       \* app.py: self.confidence
    model_outputs,    \* app.py: self.model_outputs
    ret               \* app.py: what get_intelligent_valuation returned last

vars == <<pc, info, biz, r, g1, gT, years, tax_rate, shares, total_debt,
          total_cash, net_cash, bvps, roe, cashflow, fcf_series, fcf_src,
          ebit_series, fcf_norm, ebit_norm, dcf_val, dcf_det, epv_val, epv_det, pb_val,
          pb_det, model_values, raw_blend, win_blend,
          weights_used, values_used, intelligent_fair, mos, mos_buy,
          sv, confidence, model_outputs, ret>>

infoVars   == <<info, biz>>
assumeVars == <<r, g1, gT, years, tax_rate, shares, bvps, roe, mos>>
cashVars   == <<total_debt, total_cash>>
seriesVars == <<cashflow, fcf_series, fcf_src, ebit_series>>
inputVars  == <<assumeVars, cashVars, net_cash, seriesVars, fcf_norm,
                ebit_norm>>
modelVars  == <<dcf_val, dcf_det, epv_val, epv_det, pb_val, pb_det,
                model_values>>
blendVars  == <<raw_blend, win_blend, weights_used, values_used,
                intelligent_fair, mos_buy>>
smartVars  == <<sv, confidence, model_outputs, ret>>

-----------------------------------------------------------------------------
(* Bounds of the model *)

MaxYears == 3
MaxCalls == 2
MaxPeriods == 4

-----------------------------------------------------------------------------
(* Python numbers.  A value is a record [k, n, d]: k is the kind, and a    *)
(* "float" is the rational n/d in lowest terms with d > 0.                 *)

None  == [k |-> "None",  n |-> 0, d |-> 1]
NaN   == [k |-> "nan",   n |-> 0, d |-> 1]
Inf   == [k |-> "inf",   n |-> 1, d |-> 1]
NegInf == [k |-> "inf",  n |-> -1, d |-> 1]
Raise == [k |-> "raise", n |-> 0, d |-> 1]

Abs(x) == IF x < 0 THEN -x ELSE x

RECURSIVE GCD(_, _)
GCD(a, b) == IF b = 0 THEN a ELSE GCD(b, a % b)

Q(n, d) ==
    LET g == GCD(Abs(n), Abs(d))
        s == IF d < 0 THEN -1 ELSE 1
    IN  [k |-> "float", n |-> (s * n) \div g, d |-> (s * d) \div g]

F(i) == Q(i, 1)

Sign(a) == IF a.n > 0 THEN 1 ELSE IF a.n < 0 THEN -1 ELSE 0

isfinite(x) == x.k = "float"

\* a * b
FMul(a, b) ==
    IF a.k = "raise" \/ b.k = "raise" THEN Raise
    ELSE IF a.k = "nan" \/ b.k = "nan" THEN NaN
    ELSE IF a.k = "inf" \/ b.k = "inf"
         THEN IF Sign(a) * Sign(b) > 0 THEN Inf
              ELSE IF Sign(a) * Sign(b) < 0 THEN NegInf ELSE NaN
    ELSE LET g1x == GCD(Abs(a.n), b.d)
             g2x == GCD(Abs(b.n), a.d)
         IN  Q((a.n \div g1x) * (b.n \div g2x), (a.d \div g2x) * (b.d \div g1x))

\* a + b
FAdd(a, b) ==
    IF a.k = "raise" \/ b.k = "raise" THEN Raise
    ELSE IF a.k = "nan" \/ b.k = "nan" THEN NaN
    ELSE IF a.k = "inf" /\ b.k = "inf" THEN (IF a.n = b.n THEN a ELSE NaN)
    ELSE IF a.k = "inf" THEN a
    ELSE IF b.k = "inf" THEN b
    ELSE LET g == GCD(a.d, b.d)
         IN  Q(a.n * (b.d \div g) + b.n * (a.d \div g), (a.d \div g) * b.d)

FNeg(a) == IF a.k \in {"float", "inf"} THEN [a EXCEPT !.n = -a.n] ELSE a

\* a - b
FSub(a, b) == FAdd(a, FNeg(b))

\* a / b on Python floats: a zero divisor raises ZeroDivisionError
FDiv(a, b) ==
    IF a.k = "raise" \/ b.k = "raise" THEN Raise
    ELSE IF a.k = "nan" \/ b.k = "nan" THEN NaN
    ELSE IF b.k = "float" /\ b.n = 0 THEN Raise
    ELSE IF a.k = "inf" /\ b.k = "inf" THEN NaN
    ELSE IF a.k = "inf" THEN (IF Sign(a) * Sign(b) > 0 THEN Inf ELSE NegInf)
    ELSE IF b.k = "inf" THEN F(0)
    ELSE FMul(a, [k |-> "float", n |-> (IF b.n < 0 THEN -b.d ELSE b.d), d |-> Abs(b.n)])

\* a < b (any comparison with nan is False)
FLt(a, b) ==
    IF a.k = "nan" \/ b.k = "nan" THEN FALSE
    ELSE IF a.k = "inf" /\ b.k = "inf" THEN a.n < b.n
    ELSE IF a.k = "inf" THEN a.n < 0
    ELSE IF b.k = "inf" THEN b.n > 0
    ELSE a.n * b.d < b.n * a.d

\* a <= b
FLe(a, b) ==
    IF a.k = "nan" \/ b.k = "nan" THEN FALSE ELSE ~FLt(b, a)

FMin(a, b) == IF FLt(b, a) THEN b ELSE a
FMax(a, b) == IF FLt(a, b) THEN b ELSE a

\* a ** t for an integer t >= 0
RECURSIVE FPow(_, _)
FPow(a, t) == IF t = 0 THEN F(1) ELSE FMul(a, FPow(a, t - 1))

\* truthiness of a number: None and 0 are falsy, everything else truthy
Truthy(x) == ~(x.k = "None" \/ (x.k = "float" /\ x.n = 0))

\* x or 0.0
OrZero(x) == IF Truthy(x) THEN x ELSE F(0)

\* sum(...) over a sequence of numbers
RECURSIVE FSum(_)
FSum(s) == IF s = <<>> THEN F(0) ELSE FAdd(Head(s), FSum(Tail(s)))

-----------------------------------------------------------------------------
(* pandas objects.  A Series is its entries in index order, each with the  *)
(* date that labels it and its value (a float or NaN); a DataFrame is its  *)
(* rows, a function from line item to the entries of that row, all rows    *)
(* over the same dates.                                                    *)

NoSeries == [k |-> "None", items |-> <<>>]
Series(items) == [k |-> "series", items |-> items]
NoFrame == [k |-> "None", rows |-> <<>>]
Frame(rows) == [k |-> "frame", rows |-> rows]

\* s.dropna()
RECURSIVE dropna(_)
dropna(items) ==
    IF items = <<>> THEN <<>>
    ELSE IF Head(items).val.k \in {"nan", "None"} THEN dropna(Tail(items))
    ELSE <<Head(items)>> \o dropna(Tail(items))

\* s.iloc[:n]
iloc(items, n) == SubSeq(items, 1, IF Len(items) < n THEN Len(items) ELSE n)

\* s.mean() of a Series without NaN
mean(items) ==
    FDiv(FSum([i \in 1..Len(items) |-> items[i].val]), F(Len(items)))

\* df.empty: no row, or no column
empty(df) ==
    DOMAIN df.rows = {} \/ \A k \in DOMAIN df.rows : df.rows[k] = <<>>

\* cfo + capex, entry by entry over the shared dates
SeriesAdd(a, b) ==
    [i \in 1..Len(a) |-> [date |-> a[i].date, val |-> FAdd(a[i].val, b[i].val)]]

\* s.iloc[np.argsort(idx)[::-1]]: the entries by descending date
RECURSIVE argsort_reversed(_)
argsort_reversed(items) ==
    IF items = <<>> THEN <<>>
    ELSE LET i == CHOOSE i \in 1..Len(items) :
                      \A j \in 1..Len(items) : items[j].date <= items[i].date
         IN  <<items[i]>> \o
             argsort_reversed(SubSeq(items, 1, i - 1) \o
                              SubSeq(items, i + 1, Len(items)))

\* the entries by ascending date
RECURSIVE argsort(_)
argsort(items) ==
    IF items = <<>> THEN <<>>
    ELSE LET i == CHOOSE i \in 1..Len(items) :
                      \A j \in 1..Len(items) : items[i].date <= items[j].date
         IN  <<items[i]>> \o
             argsort(SubSeq(items, 1, i - 1) \o
                     SubSeq(items, i + 1, Len(items)))

\* _series_sort_newest_first leaving the oldest period first
_series_sort_oldest_first(s) ==
    IF s = NoSeries THEN s
    ELSE LET dropped == dropna(s.items)
         IN  IF dropped = <<>> THEN Series(dropped)
             ELSE Series(argsort(dropped))

\* lines 77-94; the index labels are the statement's dates, so every label
\* converts and the entries are ordered by it
_series_sort_newest_first(s) ==
    IF s = NoSeries THEN s
    ELSE LET dropped == dropna(s.items)
         IN  IF dropped = <<>> THEN Series(dropped)
             ELSE Series(argsort_reversed(dropped))

\* lines 104-110
_avg_last_n(s, n) ==
    IF s = NoSeries THEN None
    ELSE LET sorted == dropna(_series_sort_newest_first(s).items)
         IN  IF sorted = <<>> THEN None
             ELSE mean(iloc(sorted, n))

\* the first of the keys that is a row of the frame, None if there is none
FirstRow(df, keys) ==
    IF \E i \in 1..Len(keys) : keys[i] \in DOMAIN df.rows
    THEN LET i == CHOOSE i \in 1..Len(keys) :
                      /\ keys[i] \in DOMAIN df.rows
                      /\ \A j \in 1..(i - 1) : keys[j] \notin DOMAIN df.rows
         IN  Series(df.rows[keys[i]])
    ELSE NoSeries

cfo_keys == <<"Total Cash From Operating Activities", "Operating Cash Flow">>
capex_keys == <<"Capital Expenditures">>

\* compute_free_cash_flow_series taking an absent capex line as zero
compute_free_cash_flow_series_cfo_alone(cashflow_df) ==
    IF cashflow_df = NoFrame \/ empty(cashflow_df)
    THEN [s |-> NoSeries, src |-> "cashflow_missing"]
    ELSE IF "Free Cash Flow" \in DOMAIN cashflow_df.rows
    THEN [s |-> Series(cashflow_df.rows["Free Cash Flow"]),
          src |-> "Free Cash Flow"]
    ELSE LET cfo   == FirstRow(cashflow_df, cfo_keys)
             capex == FirstRow(cashflow_df, capex_keys)
         IN  IF cfo # NoSeries /\ capex # NoSeries
             THEN [s |-> Series(SeriesAdd(cfo.items, capex.items)),
                   src |-> "CFO + Capex"]
             ELSE IF cfo # NoSeries
             THEN [s |-> cfo, src |-> "CFO + Capex"]
             ELSE [s |-> NoSeries, src |-> "fcf_not_available"]

\* lines 188-212
compute_free_cash_flow_series(cashflow_df) ==
    IF cashflow_df = NoFrame \/ empty(cashflow_df)
    THEN [s |-> NoSeries, src |-> "cashflow_missing"]
    ELSE IF "Free Cash Flow" \in DOMAIN cashflow_df.rows
    THEN [s |-> Series(cashflow_df.rows["Free Cash Flow"]),
          src |-> "Free Cash Flow"]
    ELSE LET cfo   == FirstRow(cashflow_df, cfo_keys)
             capex == FirstRow(cashflow_df, capex_keys)
         IN  IF cfo # NoSeries /\ capex # NoSeries
             THEN [s |-> Series(SeriesAdd(cfo.items, capex.items)),
                   src |-> "CFO + Capex"]
             ELSE [s |-> NoSeries, src |-> "fcf_not_available"]

-----------------------------------------------------------------------------
(* Python strings *)

UpperChars == <<"A","B","C","D","E","F","G","H","I","J","K","L","M",
                "N","O","P","Q","R","S","T","U","V","W","X","Y","Z">>
LowerChars == <<"a","b","c","d","e","f","g","h","i","j","k","l","m",
                "n","o","p","q","r","s","t","u","v","w","x","y","z">>

NoneStr == <<"<None>">>

\* s.lower()
lower(s) ==
    [i \in 1..Len(s) |->
        IF \E j \in 1..26 : UpperChars[j] = s[i]
        THEN LowerChars[CHOOSE j \in 1..26 : UpperChars[j] = s[i]]
        ELSE s[i]]

\* k in s (substring test)
Contains(k, s) ==
    \E i \in 0..(Len(s) - Len(k)) : SubSeq(s, i + 1, i + Len(k)) = k

\* any(k in s for k in keywords)
AnyIn(keywords, s) == \E j \in 1..Len(keywords) : Contains(keywords[j], s)

\* x or ""
OrEmpty(x) == IF x = NoneStr \/ x = <<>> THEN <<>> ELSE x

\* keyword lists of classify_business, lines 133-135
fin_keywords ==
    << <<"b", "a", "n", "k">>,
       <<"n", "b", "f", "c">>,
       <<"f", "i", "n", "a", "n", "c", "i", "a", "l">>,
       <<"i", "n", "s", "u", "r", "a", "n", "c", "e">>,
       <<"l", "e", "n", "d", "i", "n", "g">>,
       <<"c", "a", "p", "i", "t", "a", "l", " ", "m", "a", "r", "k", "e", "t", "s">> >>

cyc_keywords ==
    << <<"e", "n", "e", "r", "g", "y">>,
       <<"o", "i", "l">>,
       <<"g", "a", "s">>,
       <<"c", "o", "a", "l">>,
       <<"m", "e", "t", "a", "l", "s">>,
       <<"m", "i", "n", "i", "n", "g">>,
       <<"s", "t", "e", "e", "l">>,
       <<"b", "a", "s", "i", "c", " ", "m", "a", "t", "e", "r", "i", "a", "l", "s">>,
       <<"m", "a", "t", "e", "r", "i", "a", "l", "s">> >>

asset_light_keywords ==
    << <<"s", "o", "f", "t", "w", "a", "r", "e">>,
       <<"i", "t", " ", "s", "e", "r", "v", "i", "c", "e", "s">>,
       <<"t", "e", "c", "h", "n", "o", "l", "o", "g", "y">>,
       <<"i", "n", "t", "e", "r", "n", "e", "t">>,
       <<"s", "e", "r", "v", "i", "c", "e", "s">> >>


\* single keywords
kw_bank ==
    <<"b", "a", "n", "k">>

kw_financial ==
    <<"f", "i", "n", "a", "n", "c", "i", "a", "l">>

kw_energy ==
    <<"e", "n", "e", "r", "g", "y">>

kw_basic_materials ==
    <<"b", "a", "s", "i", "c", " ", "m", "a", "t", "e", "r", "i", "a", "l", "s">>

kw_technology ==
    <<"t", "e", "c", "h", "n", "o", "l", "o", "g", "y">>

kw_software ==
    <<"s", "o", "f", "t", "w", "a", "r", "e">>

-----------------------------------------------------------------------------
(* Business classification: Intrinsic-value-app.py lines 128-143 *)

Archetypes == {"FINANCIAL", "CYCLICAL", "ASSET_LIGHT", "GENERAL"}

\* info.get(key): None when the key is missing
InfoGet(info_, key) == IF key \in DOMAIN info_ THEN info_[key] ELSE NoneStr

\* x or y on strings
StrOr(x, y) == IF x = NoneStr \/ x = <<>> THEN y ELSE x

\* classify_business with the CYCLICAL rule tried before the FINANCIAL rule
classify_business_cyclical_first(info_) ==
    LET sector   == lower(OrEmpty(InfoGet(info_, "sector")))
        industry == lower(OrEmpty(InfoGet(info_, "industry")))
        longname == lower(OrEmpty(StrOr(InfoGet(info_, "longName"),
                                        InfoGet(info_, "shortName"))))
    IN  IF AnyIn(cyc_keywords, sector) \/ AnyIn(cyc_keywords, industry)
        THEN "CYCLICAL"
        ELSE IF AnyIn(fin_keywords, industry)
                \/ Contains(kw_financial, sector)
                \/ Contains(kw_bank, longname)
        THEN "FINANCIAL"
        ELSE IF AnyIn(asset_light_keywords, sector)
                \/ AnyIn(asset_light_keywords, industry)
        THEN "ASSET_LIGHT"
        ELSE "GENERAL"

\* classify_business reading shortName before longName
classify_business_short_first(info_) ==
    LET sector   == lower(OrEmpty(InfoGet(info_, "sector")))
        industry == lower(OrEmpty(InfoGet(info_, "industry")))
        longname == lower(OrEmpty(StrOr(InfoGet(info_, "shortName"),
                                        InfoGet(info_, "longName"))))
    IN  IF AnyIn(fin_keywords, industry)
           \/ Contains(kw_financial, sector)
           \/ Contains(kw_bank, longname)
        THEN "FINANCIAL"
        ELSE IF AnyIn(cyc_keywords, sector) \/ AnyIn(cyc_keywords, industry)
        THEN "CYCLICAL"
        ELSE IF AnyIn(asset_light_keywords, sector)
                \/ AnyIn(asset_light_keywords, industry)
        THEN "ASSET_LIGHT"
        ELSE "GENERAL"

classify_business(info_) ==
    LET sector   == lower(OrEmpty(InfoGet(info_, "sector")))
        industry == lower(OrEmpty(InfoGet(info_, "industry")))
        longname == lower(OrEmpty(StrOr(InfoGet(info_, "longName"),
                                        InfoGet(info_, "shortName"))))
    IN  IF AnyIn(fin_keywords, industry)
           \/ Contains(kw_financial, sector)
           \/ Contains(kw_bank, longname)
        THEN "FINANCIAL"
        ELSE IF AnyIn(cyc_keywords, sector) \/ AnyIn(cyc_keywords, industry)
        THEN "CYCLICAL"
        ELSE IF AnyIn(asset_light_keywords, sector)
                \/ AnyIn(asset_light_keywords, industry)
        THEN "ASSET_LIGHT"
        ELSE "GENERAL"

-----------------------------------------------------------------------------
(* Valuation models: Intrinsic-value-app.py lines 240-339.  Each returns   *)
(* the pair (per_share, details) as a record; of details only the "error"  *)
(* entry and pb_star are kept.                                             *)

NoDetails == [error |-> "", pb_star |-> None]

\* the loop of lines 258-261 without the growth of line 259
RECURSIVE Stage1_no_growth(_, _, _, _, _, _)
Stage1_no_growth(fcf, pv_stage1, t, years_, g1_, r_) ==
    IF t > years_
    THEN [fcf |-> fcf, pv_stage1 |-> pv_stage1]
    ELSE Stage1_no_growth(fcf,
                          FAdd(pv_stage1, FDiv(fcf, FPow(FAdd(F(1), r_), t))),
                          t + 1, years_, g1_, r_)

\* the loop of lines 258-261, from year t on
RECURSIVE Stage1(_, _, _, _, _, _)
Stage1(fcf, pv_stage1, t, years_, g1_, r_) ==
    IF t > years_
    THEN [fcf |-> fcf, pv_stage1 |-> pv_stage1]
    ELSE LET fcf2 == FMul(fcf, FAdd(F(1), g1_))
         IN  Stage1(fcf2,
                    FAdd(pv_stage1, FDiv(fcf2, FPow(FAdd(F(1), r_), t))),
                    t + 1, years_, g1_, r_)

\* dcf_two_stage_per_share rejecting only r < gT
dcf_two_stage_per_share_strict(fcf_norm_, shares_, r_, g1_, gT_, years_, net_cash_) ==
    IF fcf_norm_ = None \/ shares_ = None \/ FLe(shares_, F(0))
    THEN [per_share |-> None, details |-> NoDetails]
    ELSE IF FLt(r_, gT_)
    THEN [per_share |-> None,
          details |-> [NoDetails EXCEPT !.error = "r_must_be_gt_gT"]]
    ELSE LET s1          == Stage1(fcf_norm_, F(0), 1, years_, g1_, r_)
             terminal    == FDiv(FMul(s1.fcf, FAdd(F(1), gT_)), FSub(r_, gT_))
             pv_terminal == FDiv(terminal, FPow(FAdd(F(1), r_), years_))
             ev          == FAdd(s1.pv_stage1, pv_terminal)
             eq          == FAdd(ev, OrZero(net_cash_))
             per_share   == FDiv(eq, shares_)
         IN  [per_share |-> per_share, details |-> NoDetails]

dcf_two_stage_per_share(fcf_norm_, shares_, r_, g1_, gT_, years_, net_cash_) ==
    IF fcf_norm_ = None \/ shares_ = None \/ FLe(shares_, F(0))
    THEN [per_share |-> None, details |-> NoDetails]
    ELSE IF FLe(r_, gT_)
    THEN [per_share |-> None,
          details |-> [NoDetails EXCEPT !.error = "r_must_be_gt_gT"]]
    ELSE LET s1          == Stage1(fcf_norm_, F(0), 1, years_, g1_, r_)
             terminal    == FDiv(FMul(s1.fcf, FAdd(F(1), gT_)), FSub(r_, gT_))
             pv_terminal == FDiv(terminal, FPow(FAdd(F(1), r_), years_))
             ev          == FAdd(s1.pv_stage1, pv_terminal)
             eq          == FAdd(ev, OrZero(net_cash_))
             per_share   == FDiv(eq, shares_)
         IN  [per_share |-> per_share, details |-> NoDetails]

epv_per_share(ebit_norm_, shares_, tax_rate_, cap_rate_, net_cash_) ==
    IF ebit_norm_ = None \/ shares_ = None \/ FLe(shares_, F(0))
    THEN [per_share |-> None, details |-> NoDetails]
    ELSE IF FLe(cap_rate_, F(0))
    THEN [per_share |-> None,
          details |-> [NoDetails EXCEPT !.error = "cap_rate_must_be_positive"]]
    ELSE LET nopat     == FMul(ebit_norm_, FSub(F(1), tax_rate_))
             op_value  == FDiv(nopat, cap_rate_)
             eq_value  == FAdd(op_value, OrZero(net_cash_))
             per_share == FDiv(eq_value, shares_)
         IN  [per_share |-> per_share, details |-> NoDetails]

\* np.clip(x, lo, hi)
clip(x, lo, hi) == FMin(FMax(x, lo), hi)

\* justified_pb_intrinsic_per_share without the clamp of P/B*
justified_pb_unclamped(book_value_per_share, roe_, r_, g_) ==
    IF book_value_per_share = None
    THEN [per_share |-> None, details |-> NoDetails]
    ELSE IF roe_ = None \/ r_ = None \/ g_ = None
    THEN [per_share |-> None, details |-> NoDetails]
    ELSE IF FLe(r_, g_)
    THEN [per_share |-> None,
          details |-> [NoDetails EXCEPT !.error = "r_must_be_gt_g"]]
    ELSE IF FLe(roe_, g_)
    THEN [per_share |-> FMul(book_value_per_share, F(1)),
          details |-> [NoDetails EXCEPT !.pb_star = F(1)]]
    ELSE LET pb_star == FDiv(FSub(roe_, g_), FSub(r_, g_))
         IN  [per_share |-> FMul(book_value_per_share, pb_star),
              details |-> [NoDetails EXCEPT !.pb_star = pb_star]]

justified_pb_intrinsic_per_share(book_value_per_share, roe_, r_, g_) ==
    IF book_value_per_share = None
    THEN [per_share |-> None, details |-> NoDetails]
    ELSE IF roe_ = None \/ r_ = None \/ g_ = None
    THEN [per_share |-> None, details |-> NoDetails]
    ELSE IF FLe(r_, g_)
    THEN [per_share |-> None,
          details |-> [NoDetails EXCEPT !.error = "r_must_be_gt_g"]]
    ELSE IF FLe(roe_, g_)
    THEN [per_share |-> FMul(book_value_per_share, F(1)),
          details |-> [NoDetails EXCEPT !.pb_star = F(1)]]
    ELSE LET pb_star == clip(FDiv(FSub(roe_, g_), FSub(r_, g_)),
                             Q(1, 2), F(8))
         IN  [per_share |-> FMul(book_value_per_share, pb_star),
              details |-> [NoDetails EXCEPT !.pb_star = pb_star]]

-----------------------------------------------------------------------------
(* Blending: Intrinsic-value-app.py lines 112-125 and 341-384 *)

names == <<"DCF (Growth)", "EPV (Earnings Power)", "P/B Intrinsic">>

W(dcf, epv, pb) ==
    ("DCF (Growth)" :> Q(dcf, 100)) @@ ("EPV (Earnings Power)" :> Q(epv, 100))
        @@ ("P/B Intrinsic" :> Q(pb, 100))

\* the weight table with weight left on the models lines 351 and 353 give
\* none
base_no_zero_weight(biz_) ==
    CASE biz_ = "FINANCIAL"   -> W(10, 25, 65)
      [] biz_ = "ASSET_LIGHT" -> W(60, 30, 10)
      [] biz_ = "CYCLICAL"    -> W(20, 70, 10)
      [] biz_ = "GENERAL"     -> W(45, 45, 10)
      [] OTHER                -> W(40, 40, 20)

\* the weight table of lines 350-355, with its .get default
base(biz_) ==
    CASE biz_ = "FINANCIAL"   -> W(0, 25, 75)
      [] biz_ = "ASSET_LIGHT" -> W(65, 35, 0)
      [] biz_ = "CYCLICAL"    -> W(20, 70, 10)
      [] biz_ = "GENERAL"     -> W(45, 45, 10)
      [] OTHER                -> W(40, 40, 20)

\* dict.get(n): None when the key is missing
DictGet(dict, n) == IF n \in DOMAIN dict THEN dict[n] ELSE None

\* np.quantile taking the lower neighbour instead of interpolating
quantile_lower(v, q) ==
    LET sorted == SortSeq(v, FLt)
        pos    == FMul(q, F(Len(v) - 1))
        lo_i   == pos.n \div pos.d
    IN  sorted[lo_i + 1]

\* np.quantile(v, q) with the default linear interpolation
quantile(v, q) ==
    LET sorted == SortSeq(v, FLt)
        pos    == FMul(q, F(Len(v) - 1))
        lo_i   == pos.n \div pos.d
        frac   == FSub(pos, F(lo_i))
    IN  IF frac.n = 0
        THEN sorted[lo_i + 1]
        ELSE FAdd(sorted[lo_i + 1],
                  FMul(frac, FSub(sorted[lo_i + 2], sorted[lo_i + 1])))

_winsorize(vals, lo, hi) ==
    LET Finite(x) == x # None /\ isfinite(x)
        v   == SelectSeq(vals, Finite)
        qlo == quantile(v, lo)
        qhi == quantile(v, hi)
    IN  IF Len(v) < 2
        THEN vals
        ELSE [i \in 1..Len(vals) |->
                IF vals[i] = None \/ ~isfinite(vals[i])
                THEN vals[i]
                ELSE FMin(FMax(vals[i], qlo), qhi)]

\* the surviving (name, value, weight) triples of line 363
Valid(models, biz_) ==
    LET all == [i \in 1..3 |-> [n |-> names[i],
                                 v |-> DictGet(models, names[i]),
                                 w |-> base(biz_)[names[i]]]]
        Keep(e) == e.v # None /\ isfinite(e.v) /\ FLt(F(0), e.v)
    IN  SelectSeq(all, Keep)

NoBlend == [raw |-> None, win |-> None, weights_used |-> <<>>,
            values_used |-> <<>>]

\* [v for _, v, _ in valid] and [w for _, _, w in valid]
ValuesOf(valid)  == [i \in 1..Len(valid) |-> valid[i].v]
WeightsOf(valid) == [i \in 1..Len(valid) |-> valid[i].w]

\* sum(v * w for ...) / total_w  (lines 371 and 376)
WeightedAverage(vs, ws, total_w) ==
    FDiv(FSum([i \in 1..Len(vs) |-> FMul(vs[i], ws[i])]), total_w)

\* {n: x for (n, _, _), x in zip(valid, xs)}  (lines 378-380)
DictOf(valid, xs) ==
    [nm \in {valid[i].n : i \in 1..Len(valid)} |->
        xs[CHOOSE i \in 1..Len(valid) : valid[i].n = nm]]

\* lines 371-384, for a non-empty valid with total_w > 0
BlendOf(valid, total_w, v_win) ==
    [raw |-> WeightedAverage(ValuesOf(valid), WeightsOf(valid), total_w),
     win |-> WeightedAverage(v_win, WeightsOf(valid), total_w),
     weights_used |-> DictOf(valid, WeightsOf(valid)),
     values_used  |-> [raw        |-> DictOf(valid, ValuesOf(valid)),
                       winsorized |-> DictOf(valid, v_win)]]

\* blended_fair_value(models, biz, ltp); ltp is not read by the body
blended_fair_value(models, biz_) ==
    LET valid   == Valid(models, biz_)
        total_w == FSum(WeightsOf(valid))
    IN  IF valid = <<>>
        THEN NoBlend
        ELSE IF FLe(total_w, F(0))
        THEN NoBlend
        ELSE BlendOf(valid, total_w,
                     _winsorize(ValuesOf(valid), Q(10, 100), Q(90, 100)))

-----------------------------------------------------------------------------
(* The script of Intrinsic-value-app.py, lines 406-549 and 769-771 *)

\* a name not yet assigned
Unset == [k |-> "unset", n |-> 0, d |-> 1]

\* the entry test without its "> 0"
ModelValue_any_sign(val) ==
    IF val # None /\ isfinite(val) THEN val ELSE None

\* lines 480-483, 506-509, 530-533: what is entered into model_values
ModelValue(val) ==
    IF val # None /\ isfinite(val) /\ FLt(F(0), val) THEN val ELSE None

\* line 427
Classify ==
    /\ pc = "classify"
    /\ biz' = classify_business(info)
    /\ pc' = "netcash"
    /\ UNCHANGED <<info, inputVars, modelVars, blendVars, smartVars>>

\* lines 444-449
NetCashStep ==
    /\ pc = "netcash"
    /\ net_cash' = IF total_debt # None /\ total_cash # None
                   THEN FSub(total_cash, total_debt)
                   ELSE None
    /\ pc' = "series"
    /\ UNCHANGED <<infoVars, assumeVars, cashVars, seriesVars, fcf_norm,
                   ebit_norm, modelVars, blendVars, smartVars>>

\* line 458
SeriesStep ==
    /\ pc = "series"
    /\ LET res == compute_free_cash_flow_series(cashflow)
       IN  /\ fcf_series' = res.s
           /\ fcf_src' = res.src
    /\ pc' = "normalize"
    /\ UNCHANGED <<infoVars, assumeVars, cashVars, net_cash, cashflow,
                   ebit_series, fcf_norm, ebit_norm, modelVars, blendVars,
                   smartVars>>

\* lines 461-463
NormalizeStep ==
    /\ pc = "normalize"
    /\ fcf_norm' = IF fcf_series # NoSeries
                   THEN _avg_last_n(fcf_series, 3) ELSE None
    /\ ebit_norm' = IF ebit_series # NoSeries
                    THEN _avg_last_n(ebit_series, 3) ELSE None
    /\ pc' = "dcf"
    /\ UNCHANGED <<infoVars, assumeVars, cashVars, net_cash, seriesVars,
                   modelVars, blendVars, smartVars>>

\* lines 470-484; an exception leaves for the handler of line 769
DCFStep ==
    /\ pc = "dcf"
    /\ LET res == dcf_two_stage_per_share(fcf_norm, shares, r, g1, gT, years,
                                          net_cash)
       IN  IF res.per_share = Raise
           THEN /\ pc' = "error"
                /\ UNCHANGED <<dcf_val, dcf_det, model_values>>
           ELSE /\ dcf_val' = res.per_share
                /\ dcf_det' = res.details
                /\ model_values' =
                      ("DCF (Growth)" :> ModelValue(res.per_share)) @@ model_values
                /\ pc' = "epv"
    /\ UNCHANGED <<infoVars, inputVars, epv_val, epv_det, pb_val, pb_det,
                   blendVars, smartVars>>

\* lines 497-510
EPVStep ==
    /\ pc = "epv"
    /\ LET cap_rate == r
           res == epv_per_share(ebit_norm, shares, tax_rate, cap_rate, net_cash)
       IN  IF res.per_share = Raise
           THEN /\ pc' = "error"
                /\ UNCHANGED <<epv_val, epv_det, model_values>>
           ELSE /\ epv_val' = res.per_share
                /\ epv_det' = res.details
                /\ model_values' =
                      ("EPV (Earnings Power)" :> ModelValue(res.per_share))
                          @@ model_values
                /\ pc' = "pb"
    /\ UNCHANGED <<infoVars, inputVars, dcf_val, dcf_det, pb_val, pb_det,
                   blendVars, smartVars>>

\* lines 521-534
PBStep ==
    /\ pc = "pb"
    /\ LET g_pb == FMin(gT, Q(6, 100))
           res  == justified_pb_intrinsic_per_share(bvps, roe, r, g_pb)
       IN  IF res.per_share = Raise
           THEN /\ pc' = "error"
                /\ UNCHANGED <<pb_val, pb_det, model_values>>
           ELSE /\ pb_val' = res.per_share
                /\ pb_det' = res.details
                /\ model_values' =
                      ("P/B Intrinsic" :> ModelValue(res.per_share)) @@ model_values
                /\ pc' = "blend"
    /\ UNCHANGED <<infoVars, inputVars, dcf_val, dcf_det, epv_val, epv_det,
                   blendVars, smartVars>>

\* line 547
IntelligentFair(b) == IF b.win # None THEN b.win ELSE b.raw

\* the buy price with the percentage taken as a fraction (1 - mos)
MosBuy_no_percent(fair, mos_) ==
    IF fair # None
    THEN FMul(fair, FSub(F(1), F(mos_)))
    ELSE None

\* line 548
MosBuy(fair, mos_) ==
    IF fair # None
    THEN FMul(fair, FSub(F(1), FDiv(F(mos_), F(100))))
    ELSE None

\* the assignments of lines 545-548, b being what blended_fair_value returned
AssignBlend(b) ==
    /\ raw_blend' = b.raw
    /\ win_blend' = b.win
    /\ weights_used' = b.weights_used
    /\ values_used' = b.values_used
    /\ intelligent_fair' = IntelligentFair(b)
    /\ mos_buy' = MosBuy(IntelligentFair(b), mos)

\* lines 545-548
Blend ==
    /\ pc = "blend"
    /\ AssignBlend(blended_fair_value(model_values, biz))
    /\ pc' = "done"
    /\ UNCHANGED <<infoVars, inputVars, modelVars, smartVars>>

-----------------------------------------------------------------------------
(* app.py: class SmartValuer, lines 9-89.  sv holds what __init__ fetched: *)
(* info's sector and industry, the newest 'Free Cash Flow' and 'EBIT'      *)
(* entries (Raise when the lookup raises), sharesOutstanding,              *)
(* returnOnEquity and bookValue.                                           *)

\* str(x)
str(x) == IF x = NoneStr THEN <<"N", "o", "n", "e">> ELSE x

\* SmartValuer.classify_business, lines 26-32
sv_classify_business(self) ==
    LET industry == lower(str(self.industry))
        sector   == lower(str(self.sector))
    IN  IF Contains(kw_bank, industry) \/ Contains(kw_financial, sector)
        THEN "FINANCIAL"
        ELSE IF Contains(kw_energy, sector) \/ Contains(kw_basic_materials, sector)
        THEN "CYCLICAL"
        ELSE IF Contains(kw_technology, sector) \/ Contains(kw_software, industry)
        THEN "ASSET_LIGHT"
        ELSE "GENERAL"

\* SmartValuer.run_dcf, lines 34-43: the value returned and self.confidence after
run_dcf(self, conf) ==
    IF self.fcf = Raise
    THEN [val |-> None, confidence |-> conf]
    ELSE IF Truthy(self.fcf) /\ Truthy(self.shares)
    THEN [val |-> FDiv(FMul(self.fcf, F(15)), self.shares),
          confidence |-> conf + 35]
    ELSE [val |-> None, confidence |-> conf]

\* SmartValuer.run_epv, lines 45-53
run_epv(self, conf) ==
    IF self.ebit = Raise
    THEN [val |-> None, confidence |-> conf]
    ELSE IF Truthy(self.ebit) /\ Truthy(self.shares)
    THEN [val |-> FDiv(FDiv(FMul(self.ebit, Q(75, 100)), Q(12, 100)), self.shares),
          confidence |-> conf + 30]
    ELSE [val |-> None, confidence |-> conf]

\* SmartValuer.run_pb_intrinsic, lines 55-64
run_pb_intrinsic(self, conf) ==
    IF Truthy(self.roe) /\ Truthy(self.bv)
    THEN [val |-> FMul(self.bv, FDiv(self.roe, Q(12, 100))),
          confidence |-> conf + 35]
    ELSE [val |-> None, confidence |-> conf]

\* the weight table of lines 75-80
sv_weights(biz_) ==
    CASE biz_ = "FINANCIAL"   -> W(0, 20, 80)
      [] biz_ = "ASSET_LIGHT" -> W(60, 30, 10)
      [] biz_ = "CYCLICAL"    -> W(10, 70, 20)
      [] biz_ = "GENERAL"     -> W(40, 40, 20)

\* the loop of lines 82-86 over the first i models
RECURSIVE sv_accumulate(_, _, _)
sv_accumulate(outputs, weights, i) ==
    IF i = 0
    THEN [weighted_val |-> F(0), total_weight |-> F(0)]
    ELSE LET acc   == sv_accumulate(outputs, weights, i - 1)
             model == names[i]
             val   == outputs[model]
         IN  IF Truthy(val)
             THEN [weighted_val |-> FAdd(acc.weighted_val,
                                         FMul(val, weights[model])),
                   total_weight |-> FAdd(acc.total_weight, weights[model])]
             ELSE acc

\* SmartValuer.get_intelligent_valuation, lines 66-89: the returned pair and
\* the fields it leaves behind
get_intelligent_valuation(self, conf) ==
    LET biz_    == sv_classify_business(self)
        dcf     == run_dcf(self, conf)
        epv     == run_epv(self, dcf.confidence)
        pb      == run_pb_intrinsic(self, epv.confidence)
        outputs == ("DCF (Growth)" :> dcf.val) @@ ("EPV (Earnings Power)" :> epv.val)
                       @@ ("P/B Intrinsic" :> pb.val)
        acc     == sv_accumulate(outputs, sv_weights(biz_), 3)
        final_fair == IF FLt(F(0), acc.total_weight)
                      THEN FDiv(acc.weighted_val, acc.total_weight)
                      ELSE None
    IN  [final_fair |-> final_fair, biz |-> biz_,
         model_outputs |-> outputs, confidence |-> pb.confidence]

\* lines 102-107: one call of valuer.get_intelligent_valuation()
GetIntelligentValuation ==
    /\ pc = "valuer"
    /\ confidence < MaxCalls * 100
    /\ LET res == get_intelligent_valuation(sv, confidence)
       IN  /\ confidence' = res.confidence
           /\ model_outputs' = res.model_outputs
           /\ ret' = [final_fair |-> res.final_fair, biz |-> res.biz]
    /\ UNCHANGED <<pc, sv, infoVars, inputVars, modelVars, blendVars>>

-----------------------------------------------------------------------------
(* Inputs *)

SectorTexts ==
    { <<"F", "i", "n", "a", "n", "c", "i", "a", "l", " ", "S", "e", "r", "v", "i", "c", "e", "s">>,
       <<"E", "n", "e", "r", "g", "y">>,
       <<"T", "e", "c", "h", "n", "o", "l", "o", "g", "y">>,
       <<"I", "n", "d", "u", "s", "t", "r", "i", "a", "l", "s">>,
       <<"B", "a", "s", "i", "c", " ", "M", "a", "t", "e", "r", "i", "a", "l", "s">>,
       <<"B", "a", "n", "k", "i", "n", "g">>,
       <<"C", "o", "m", "m", "u", "n", "i", "c", "a", "t", "i", "o", "n", " ", "S", "e", "r", "v", "i", "c", "e", "s">> }

IndustryTexts ==
    { <<"B", "a", "n", "k", "s", " ", "-", " ", "R", "e", "g", "i", "o", "n", "a", "l">>,
       <<"C", "a", "p", "i", "t", "a", "l", " ", "M", "a", "r", "k", "e", "t", "s">>,
       <<"S", "t", "e", "e", "l">>,
       <<"S", "o", "f", "t", "w", "a", "r", "e", " ", "-", " ", "A", "p", "p", "l", "i", "c", "a", "t", "i", "o", "n">>,
       <<"A", "u", "t", "o", " ", "P", "a", "r", "t", "s">>,
       <<"M", "e", "t", "a", "l", " ", "F", "a", "b", "r", "i", "c", "a", "t", "i", "o", "n">>,
       <<"O", "i", "l", " ", "&", " ", "G", "a", "s", " ", "E", "&", "P">>,
       <<"I", "T", " ", "S", "e", "r", "v", "i", "c", "e", "s">>,
       <<"I", "n", "s", "u", "r", "a", "n", "c", "e", " ", "-", " ", "L", "i", "f", "e">> }

NameTexts ==
    { <<"H", "D", "F", "C", " ", "B", "a", "n", "k", " ", "L", "i", "m", "i", "t", "e", "d">>,
       <<"T", "a", "t", "a", " ", "M", "o", "t", "o", "r", "s">> }


Rates           == {Q(1, 20), Q(1, 10), Q(1, 5)}
Growths         == {F(0), Q(1, 10), Q(3, 10)}
TerminalGrowths == {F(0), Q(1, 20), Q(1, 10)}
TaxRates        == {Q(1, 10), Q(1, 4), Q(2, 5)}
ShareValues     == {None, F(0), F(1), F(4)}
NetCashValues   == {None, F(-500), F(0), F(500)}
FlowValues      == {None, F(-20), F(0), F(20)}
BookValues      == {None, F(-10), F(50), Inf}
RoeValues       == {None, Q(-1, 10), Q(3, 100), Q(3, 20), Q(3, 2)}
BlendValues     == {None, F(10), F(20), F(40), F(130)}
MosValues       == {5, 20, 40}

NoInfo == [sector |-> NoneStr, industry |-> NoneStr, longName |-> NoneStr]

NoSmart == [sector |-> NoneStr, industry |-> NoneStr, fcf |-> Raise,
            ebit |-> Raise, shares |-> None, roe |-> None, bv |-> None]

\* nothing computed yet (lines 466-468)
ModelsUnset ==
    /\ dcf_val = Unset /\ dcf_det = NoDetails
    /\ epv_val = Unset /\ epv_det = NoDetails
    /\ pb_val = Unset  /\ pb_det = NoDetails

BlendUnset ==
    /\ raw_blend = Unset /\ win_blend = Unset
    /\ weights_used = <<>> /\ values_used = <<>>
    /\ intelligent_fair = Unset /\ mos_buy = Unset

\* SmartValuer.__init__, lines 23-24
SmartInit ==
    /\ confidence = 0
    /\ model_outputs = <<>>
    /\ ret = [final_fair |-> Unset, biz |-> ""]

NoSmartValuer == sv = NoSmart /\ SmartInit

\* the orders in which the dates 1..n can label the columns of a statement
RECURSIVE Orders(_)
Orders(n) ==
    IF n = 0 THEN {<<>>}
    ELSE {SubSeq(o, 1, i - 1) \o <<n>> \o SubSeq(o, i, n - 1) :
              o \in Orders(n - 1), i \in 1..n}

\* a statement row of up to MaxPeriods periods: the period of date d holds
\* 10 * d, or NaN when the statement has no figure for it
SeriesInputs ==
    {NoSeries} \cup
    UNION {{Series([i \in 1..n |->
                       [date |-> o[i],
                        val  |-> IF o[i] \in absent THEN NaN ELSE F(10 * o[i])]]) :
                o \in Orders(n), absent \in SUBSET (1..n)} :
           n \in 0..MaxPeriods}

\* a statement row over the two periods 2 (newest) and 1
Row(a, b) == <<[date |-> 2, val |-> a], [date |-> 1, val |-> b]>>

\* the frames that hold one of the given rows, or none, for a line item
WithRow(frames, item, rows) ==
    frames \cup {(item :> row) @@ f : f \in frames, row \in rows}

\* cash-flow statements: missing, empty, and with any of the line items
CashflowInputs ==
    LET f0 == {<<>>}
        f1 == WithRow(f0, "Free Cash Flow",
                      {Row(F(20), F(30)), Row(NaN, NaN)})
        f2 == WithRow(f1, "Total Cash From Operating Activities",
                      {Row(F(100), F(80)), Row(NaN, F(60))})
        f3 == WithRow(f2, "Operating Cash Flow", {Row(F(90), F(70))})
        f4 == WithRow(f3, "Capital Expenditures",
                      {Row(F(-30), F(-40)), Row(F(-30), NaN)})
        f5 == WithRow(f4, "Net Income", {Row(F(55), F(45))})
    IN  {NoFrame, Frame("Net Income" :> <<>>)} \cup {Frame(f) : f \in f5}

\* a statement with the one period whose value is x
OnePeriod(x) == <<[date |-> 1, val |-> x]>>
SeriesOf(x) == IF x = None THEN NoSeries ELSE Series(OnePeriod(x))
FrameOf(x) ==
    IF x = None THEN NoFrame ELSE Frame("Free Cash Flow" :> OnePeriod(x))

\* what lines 444-463 read to leave net_cash, fcf_norm and ebit_norm as
\* they are
Fetched ==
    /\ total_cash = (IF net_cash = None THEN None ELSE FMax(net_cash, F(0)))
    /\ total_debt = (IF net_cash = None THEN None
                     ELSE FMax(FNeg(net_cash), F(0)))
    /\ cashflow = FrameOf(fcf_norm)
    /\ fcf_series = SeriesOf(fcf_norm)
    /\ fcf_src = (IF fcf_norm = None THEN "cashflow_missing"
                  ELSE "Free Cash Flow")
    /\ ebit_series = SeriesOf(ebit_norm)

\* lines 444-463 not run yet
NotNormalized ==
    /\ net_cash = Unset
    /\ fcf_series = NoSeries /\ fcf_src = ""
    /\ fcf_norm = Unset /\ ebit_norm = Unset

txt_FinancialServices ==
    <<"F", "i", "n", "a", "n", "c", "i", "a", "l", " ", "S", "e", "r", "v", "i", "c", "e", "s">>
txt_Energy ==
    <<"E", "n", "e", "r", "g", "y">>
txt_Technology ==
    <<"T", "e", "c", "h", "n", "o", "l", "o", "g", "y">>
txt_Industrials ==
    <<"I", "n", "d", "u", "s", "t", "r", "i", "a", "l", "s">>

-----------------------------------------------------------------------------
(* classify_business on its own *)

InitClassify ==
    /\ pc = "classify"
    /\ info \in [sector   : SectorTexts \cup {NoneStr},
                 industry : IndustryTexts \cup {NoneStr},
                 longName : NameTexts \cup {NoneStr},
                 shortName : NameTexts \cup {NoneStr}]
    /\ biz = ""
    /\ r = Q(1, 10) /\ g1 = Q(1, 10) /\ gT = Q(1, 20) /\ years = 1
    /\ tax_rate = Q(1, 4) /\ shares = None /\ net_cash = None
    /\ bvps = None /\ roe = None /\ fcf_norm = None /\ ebit_norm = None
    /\ mos = 20
    /\ Fetched
    /\ model_values = <<>>
    /\ ModelsUnset /\ BlendUnset /\ NoSmartValuer

NextClassify == Classify

SpecClassify == InitClassify /\ [][NextClassify]_vars

(* the DCF model on its own *)

InitDCF ==
    /\ pc = "dcf"
    /\ info = NoInfo /\ biz = "GENERAL"
    /\ r \in Rates /\ g1 \in Growths /\ gT \in TerminalGrowths
    /\ years \in 1..MaxYears
    /\ shares \in ShareValues /\ net_cash \in NetCashValues
    /\ fcf_norm \in FlowValues
    /\ tax_rate = Q(1, 4) /\ bvps = None /\ roe = None /\ ebit_norm = None
    /\ mos = 20
    /\ Fetched
    /\ model_values = <<>>
    /\ ModelsUnset /\ BlendUnset /\ NoSmartValuer

NextDCF == DCFStep

SpecDCF == InitDCF /\ [][NextDCF]_vars

(* the EPV model on its own *)

InitEPV ==
    /\ pc = "epv"
    /\ info = NoInfo /\ biz = "GENERAL"
    /\ r \in Rates \cup {F(0), Q(-1, 20)} /\ g1 = Q(1, 10) /\ gT = Q(1, 20)
    /\ years = 1
    /\ shares \in ShareValues /\ net_cash \in NetCashValues
    /\ ebit_norm \in FlowValues /\ tax_rate \in TaxRates
    /\ bvps = None /\ roe = None /\ fcf_norm = None
    /\ mos = 20
    /\ Fetched
    /\ model_values = <<>>
    /\ ModelsUnset /\ BlendUnset /\ NoSmartValuer

NextEPV == EPVStep

SpecEPV == InitEPV /\ [][NextEPV]_vars

(* the justified P/B model on its own *)

InitPB ==
    /\ pc = "pb"
    /\ info = NoInfo /\ biz = "GENERAL"
    /\ r \in Rates /\ g1 = Q(1, 10) /\ gT \in TerminalGrowths
    /\ years = 1
    /\ shares = None /\ net_cash = None /\ ebit_norm = None
    /\ tax_rate = Q(1, 4) /\ fcf_norm = None
    /\ bvps \in BookValues /\ roe \in RoeValues
    /\ mos = 20
    /\ Fetched
    /\ model_values = <<>>
    /\ ModelsUnset /\ BlendUnset /\ NoSmartValuer

NextPB == PBStep

SpecPB == InitPB /\ [][NextPB]_vars

(* blended_fair_value on the model values the script can hold *)

InitBlend ==
    /\ pc = "blend"
    /\ info = NoInfo /\ biz \in Archetypes
    /\ r = Q(1, 10) /\ g1 = Q(1, 10) /\ gT = Q(1, 20) /\ years = 1
    /\ tax_rate = Q(1, 4) /\ shares = None /\ net_cash = None
    /\ bvps = None /\ roe = None /\ fcf_norm = None /\ ebit_norm = None
    /\ mos \in MosValues
    /\ Fetched
    /\ model_values \in [{names[i] : i \in 1..3} -> BlendValues]
    /\ ModelsUnset /\ BlendUnset /\ NoSmartValuer

NextBlend == Blend

SpecBlend == InitBlend /\ [][NextBlend]_vars

(* the whole script, from classification to the blend *)

InitApp ==
    /\ pc = "classify"
    /\ info \in {[sector |-> s, industry |-> NoneStr, longName |-> NoneStr] :
                    s \in SectorTexts}
    /\ biz = ""
    /\ r \in {Q(1, 10), Q(1, 5)} /\ g1 = Q(1, 10)
    /\ gT \in {Q(1, 20), Q(1, 10)}
    /\ years \in {1, 2}
    /\ tax_rate = Q(1, 4)
    /\ shares \in {None, F(4)}
    /\ \E p \in {<<None, None>>, <<F(500), None>>, <<F(500), F(0)>>,
                  <<F(0), F(500)>>} :
           total_cash = p[1] /\ total_debt = p[2]
    /\ cashflow \in {FrameOf(x) : x \in {None, F(-20), F(20)}}
    /\ ebit_series \in {SeriesOf(x) : x \in {None, F(-20), F(40)}}
    /\ NotNormalized
    /\ bvps \in {None, F(50), Inf}
    /\ roe \in {None, Q(3, 20)}
    /\ mos = 20
    /\ model_values = <<>>
    /\ ModelsUnset /\ BlendUnset /\ NoSmartValuer

NextApp == Classify \/ NetCashStep \/ SeriesStep \/ NormalizeStep
              \/ DCFStep \/ EPVStep \/ PBStep \/ Blend

SpecApp == InitApp /\ [][NextApp]_vars

(* net cash and the models that add it (lines 444-449, 267, 301) *)

CashValues == {None, F(0), F(200), F(500)}

InitNetCash ==
    /\ pc = "netcash"
    /\ info = NoInfo /\ biz = "GENERAL"
    /\ r = Q(1, 10) /\ g1 = Q(1, 10) /\ gT = Q(1, 20) /\ years = 1
    /\ tax_rate = Q(1, 4)
    /\ shares \in {None, F(4)}
    /\ total_cash \in CashValues /\ total_debt \in CashValues
    /\ cashflow \in {FrameOf(x) : x \in {None, F(20)}}
    /\ ebit_series \in {SeriesOf(x) : x \in {None, F(40)}}
    /\ bvps = None /\ roe = None
    /\ mos = 20
    /\ NotNormalized
    /\ model_values = <<>>
    /\ ModelsUnset /\ BlendUnset /\ NoSmartValuer

NextNetCash == NetCashStep \/ SeriesStep \/ NormalizeStep \/ DCFStep \/ EPVStep

SpecNetCash == InitNetCash /\ [][NextNetCash]_vars

(* _avg_last_n on its own (lines 461-463) *)

InitSeries ==
    /\ pc = "normalize"
    /\ info = NoInfo /\ biz = "GENERAL"
    /\ r = Q(1, 10) /\ g1 = Q(1, 10) /\ gT = Q(1, 20) /\ years = 1
    /\ tax_rate = Q(1, 4) /\ shares = None
    /\ total_cash = None /\ total_debt = None /\ net_cash = None
    /\ fcf_series \in SeriesInputs
    /\ cashflow = (IF fcf_series = NoSeries THEN NoFrame
                   ELSE Frame("Free Cash Flow" :> fcf_series.items))
    /\ fcf_src = (IF fcf_series = NoSeries THEN "cashflow_missing"
                  ELSE "Free Cash Flow")
    /\ ebit_series = SeriesOf(F(40))
    /\ fcf_norm = Unset /\ ebit_norm = Unset
    /\ bvps = None /\ roe = None
    /\ mos = 20
    /\ model_values = <<>>
    /\ ModelsUnset /\ BlendUnset /\ NoSmartValuer

NextSeries == NormalizeStep

SpecSeries == InitSeries /\ [][NextSeries]_vars

(* the free cash flow series and the DCF model it feeds (lines 458-484) *)

InitFcf ==
    /\ pc = "series"
    /\ info = NoInfo /\ biz = "GENERAL"
    /\ r = Q(1, 10) /\ g1 = Q(1, 10) /\ gT = Q(1, 20) /\ years = 1
    /\ tax_rate = Q(1, 4) /\ shares = F(4)
    /\ total_cash = None /\ total_debt = None /\ net_cash = None
    /\ cashflow \in CashflowInputs
    /\ fcf_series = NoSeries /\ fcf_src = ""
    /\ ebit_series = NoSeries
    /\ fcf_norm = Unset /\ ebit_norm = Unset
    /\ bvps = None /\ roe = None
    /\ mos = 20
    /\ model_values = <<>>
    /\ ModelsUnset /\ BlendUnset /\ NoSmartValuer

NextFcf == SeriesStep \/ NormalizeStep \/ DCFStep

SpecFcf == InitFcf /\ [][NextFcf]_vars

(* app.py: a SmartValuer after construction *)

InitSmart ==
    /\ pc = "valuer"
    /\ sv \in [sector   : {txt_FinancialServices, txt_Energy, txt_Technology,
                            txt_Industrials},
               industry : {NoneStr},
               fcf      : {Raise, F(-100), F(0), F(100)},
               ebit     : {Raise, F(-60), F(0), F(120)},
               shares   : {None, F(10)},
               roe      : {None, Q(-6, 100), Q(18, 100)},
               bv       : {None, F(50)}]
    /\ SmartInit
    /\ info = NoInfo /\ biz = ""
    /\ r = Q(1, 10) /\ g1 = Q(1, 10) /\ gT = Q(1, 20) /\ years = 1
    /\ tax_rate = Q(1, 4) /\ shares = None /\ net_cash = None
    /\ bvps = None /\ roe = None /\ fcf_norm = None /\ ebit_norm = None
    /\ mos = 20
    /\ Fetched
    /\ model_values = <<>>
    /\ ModelsUnset /\ BlendUnset

NextSmart == GetIntelligentValuation

SpecSmart == InitSmart /\ [][NextSmart]_vars

-----------------------------------------------------------------------------
(* Properties *)

Names == {names[i] : i \in 1..3}

Present(v) == v # None /\ isfinite(v) /\ FLt(F(0), v)

\* the sum of a dict's values
RECURSIVE DictSum(_, _)
DictSum(dict, keys) ==
    IF keys = {} THEN F(0)
    ELSE LET k1 == CHOOSE x \in keys : TRUE
         IN  FAdd(dict[k1], DictSum(dict, keys \ {k1}))

\* C1: once the blend has run, the fair value is absent if and only if all
\* three model results are absent.
C1_FairAbsentIffAllModelsAbsent ==
    pc = "done" =>
        ((intelligent_fair = None) <=> (\A nm \in Names : ~Present(model_values[nm])))

\* C2: when exactly one model result is present, rawBlend and adjustedBlend
\* both equal that model's value, whatever its base weight.
C2_SingleModelBlendIsItsValue ==
    pc = "done" =>
        \A nm \in Names :
            (/\ Present(model_values[nm])
             /\ \A other \in Names \ {nm} : ~Present(model_values[other]))
            => (raw_blend = model_values[nm] /\ win_blend = model_values[nm])

\* C3: when a fair value is returned, weights_used sums to 1.0 and rawBlend
\* is the sum over the surviving models of weights_used[model] x value[model].
C3_WeightsUsedAreRenormalized ==
    (pc = "done" /\ intelligent_fair # None) =>
        /\ DictSum(weights_used, DOMAIN weights_used) = F(1)
        /\ raw_blend = DictSum([nm \in DOMAIN weights_used |->
                                   FMul(weights_used[nm], model_values[nm])],
                               DOMAIN weights_used)

\* the raw output of each model, once its step has run
RawOutput(nm) ==
    CASE nm = "DCF (Growth)"         -> dcf_val
      [] nm = "EPV (Earnings Power)" -> epv_val
      [] nm = "P/B Intrinsic"        -> pb_val

\* C4: a model output that is None, non-finite, zero or negative is stored as
\* None in model_values and is outside the blend's surviving set; every value
\* that contributes to the blends is finite and strictly positive, and a
\* present fair value is strictly positive.
C4_OnlyPositiveFiniteValuesBlend ==
    /\ \A nm \in DOMAIN model_values :
          /\ model_values[nm] = None \/ Present(model_values[nm])
          /\ model_values[nm] = None <=> ~Present(RawOutput(nm))
          /\ model_values[nm] # None => model_values[nm] = RawOutput(nm)
    /\ (pc = "done" /\ intelligent_fair # None) =>
          /\ \A nm \in DOMAIN weights_used :
                /\ model_values[nm] # None
                /\ values_used.raw[nm] = model_values[nm]
                /\ Present(values_used.raw[nm])
                /\ Present(values_used.winsorized[nm])
          /\ Present(raw_blend)
          /\ Present(intelligent_fair)

\* C4 witness: a fair value was produced although one model's output was
\* negative and another's infinite.
C4_Witness ==
    /\ pc = "done"
    /\ intelligent_fair # None
    /\ isfinite(dcf_val) /\ FLt(dcf_val, F(0))
    /\ pb_val = Inf
    /\ model_values["DCF (Growth)"] = None
    /\ model_values["P/B Intrinsic"] = None

\* C5: SmartValuer.get_intelligent_valuation treats a zero or negative model
\* output as absent, so a fair value it returns is strictly positive.
C5_SmartFairValuePositive ==
    (ret.final_fair # Unset /\ ret.final_fair # None)
        => FLt(F(0), ret.final_fair)

\* C6: dcf_two_stage_per_share returns None, and raises nothing, whenever
\* r <= gT; with r > gT, a present fcf and shares > 0 it returns a number.
C6_DcfRejectsRLeGT ==
    pc # "dcf" =>
        /\ FLe(r, gT) => (pc = "epv" /\ dcf_val = None)
        /\ (FLt(gT, r) /\ fcf_norm # None /\ shares # None /\ FLt(F(0), shares))
              => (pc = "epv" /\ isfinite(dcf_val))

\* C6 witness: r = gT with usable fcf and shares, rejected with the error note.
C6_Witness ==
    /\ pc = "epv"
    /\ r = gT
    /\ fcf_norm # None /\ shares # None /\ FLt(F(0), shares)
    /\ dcf_val = None
    /\ dcf_det.error = "r_must_be_gt_gT"

\* C7: the DCF entry of model_values is absent whenever fcfNormalized or
\* sharesOutstanding is absent or non-positive, for every netCash.
C7_DcfAbsentOnBadInputs ==
    (pc = "epv" /\ (\/ fcf_norm = None \/ FLe(fcf_norm, F(0))
                    \/ shares = None \/ FLe(shares, F(0))))
        => model_values["DCF (Growth)"] = None

\* C8: the EPV entry of model_values is absent whenever capRate <= 0, or
\* ebitNormalized or sharesOutstanding is absent or non-positive, for every
\* netCash.
C8_EpvAbsentOnBadInputs ==
    (pc = "pb" /\ (\/ FLe(r, F(0))
                   \/ ebit_norm = None \/ FLe(ebit_norm, F(0))
                   \/ shares = None \/ FLe(shares, F(0))))
        => model_values["EPV (Earnings Power)"] = None

\* the growth rate the script hands to the P/B model (line 523)
G_pb == IF FLt(Q(6, 100), gT) THEN Q(6, 100) ELSE gT

\* (ROE - g) / (r - g) brought into [0.5, 8.0]
ClampedMultiple ==
    LET m == FDiv(FSub(roe, G_pb), FSub(r, G_pb))
    IN  IF FLt(m, Q(1, 2)) THEN Q(1, 2)
        ELSE IF FLt(F(8), m) THEN F(8) ELSE m

\* C9: with bookValuePerShare and ROE present, the P/B model yields nothing
\* when r <= g; otherwise value = bookValuePerShare x multiple with multiple
\* = 1.0 when ROE <= g and (ROE - g)/(r - g) clamped to [0.5, 8.0] when
\* ROE > g, so the multiple applied always lies in [0.5, 8.0].
C9_JustifiedPbMultiple ==
    (pc = "blend" /\ bvps # None /\ roe # None) =>
        IF FLe(r, G_pb)
        THEN pb_val = None
        ELSE /\ FLe(roe, G_pb) => pb_det.pb_star = F(1)
             /\ FLt(G_pb, roe) => pb_det.pb_star = ClampedMultiple
             /\ pb_val = FMul(bvps, pb_det.pb_star)
             /\ FLe(Q(1, 2), pb_det.pb_star) /\ FLe(pb_det.pb_star, F(8))

\* C9 witness: a multiple above 8.0 was cut to 8.0.
C9_Witness ==
    /\ pc = "blend"
    /\ bvps = F(50) /\ roe # None
    /\ FLt(G_pb, r) /\ FLt(G_pb, roe)
    /\ FLt(F(8), FDiv(FSub(roe, G_pb), FSub(r, G_pb)))
    /\ pb_det.pb_star = F(8)
    /\ pb_val = F(400)

Range(seq) == {seq[i] : i \in 1..Len(seq)}

Sector   == lower(OrEmpty(info.sector))
Industry == lower(OrEmpty(info.industry))
LongName == lower(OrEmpty(StrOr(info.longName, InfoGet(info, "shortName"))))

\* the keywords the claim lists
SpecFinKeywords ==
    << <<"b", "a", "n", "k">>,
       <<"f", "i", "n", "a", "n", "c", "i", "a", "l">>,
       <<"n", "b", "f", "c">>,
       <<"i", "n", "s", "u", "r", "a", "n", "c", "e">>,
       <<"l", "e", "n", "d", "i", "n", "g">> >>

SpecCycKeywords ==
    << <<"e", "n", "e", "r", "g", "y">>,
       <<"o", "i", "l">>,
       <<"g", "a", "s">>,
       <<"c", "o", "a", "l">>,
       <<"m", "e", "t", "a", "l">>,
       <<"m", "i", "n", "i", "n", "g">>,
       <<"s", "t", "e", "e", "l">>,
       <<"m", "a", "t", "e", "r", "i", "a", "l", "s">> >>

SpecLightKeywords ==
    << <<"s", "o", "f", "t", "w", "a", "r", "e">>,
       <<"i", "t", " ", "s", "e", "r", "v", "i", "c", "e", "s">>,
       <<"t", "e", "c", "h", "n", "o", "l", "o", "g", "y">>,
       <<"i", "n", "t", "e", "r", "n", "e", "t">> >>

\* the rules as the claim words them: a keyword in the sector or the industry
ClaimFinancial ==
    \E kw \in Range(SpecFinKeywords) : Contains(kw, Sector) \/ Contains(kw, Industry)
ClaimCyclical ==
    \E kw \in Range(SpecCycKeywords) : Contains(kw, Sector) \/ Contains(kw, Industry)
ClaimAssetLight ==
    \E kw \in Range(SpecLightKeywords) : Contains(kw, Sector) \/ Contains(kw, Industry)

CodeFinancial ==
    \/ \E kw \in Range(fin_keywords) : Contains(kw, Industry)
    \/ Contains(kw_financial, Sector)
    \/ Contains(kw_bank, LongName)
CodeCyclical ==
    \E kw \in Range(cyc_keywords) : Contains(kw, Sector) \/ Contains(kw, Industry)
CodeAssetLight ==
    \E kw \in Range(asset_light_keywords) :
        Contains(kw, Sector) \/ Contains(kw, Industry)

SameSectorIndustry ==
    {[info EXCEPT !.longName = ln, !.shortName = sn] :
        ln \in NameTexts \cup {NoneStr}, sn \in NameTexts \cup {NoneStr}}

\* the company name classify_business reads: longName, else shortName
NameRead(info_) == OrEmpty(StrOr(InfoGet(info_, "longName"),
                                 InfoGet(info_, "shortName")))

Surviving == {nm \in Names : Present(model_values[nm])}

\* least and greatest surviving value, and the middle one of three
LeastValue ==
    CHOOSE v \in {model_values[nm] : nm \in Surviving} :
        \A nm \in Surviving : FLe(v, model_values[nm])
GreatestValue ==
    CHOOSE v \in {model_values[nm] : nm \in Surviving} :
        \A nm \in Surviving : FLe(model_values[nm], v)
MiddleValue ==
    FSub(FSub(DictSum(model_values, Surviving), LeastValue), GreatestValue)

\* 10th and 90th percentile of two or three values, linear interpolation:
\* at position 0.1 (n - 1) and 0.9 (n - 1) of the sorted values
P10 ==
    IF Cardinality(Surviving) = 2
    THEN FAdd(LeastValue, FMul(Q(1, 10), FSub(GreatestValue, LeastValue)))
    ELSE FAdd(LeastValue, FMul(Q(2, 10), FSub(MiddleValue, LeastValue)))
P90 ==
    IF Cardinality(Surviving) = 2
    THEN FAdd(LeastValue, FMul(Q(9, 10), FSub(GreatestValue, LeastValue)))
    ELSE FAdd(MiddleValue, FMul(Q(8, 10), FSub(GreatestValue, MiddleValue)))

Clipped(v) == IF FLt(v, P10) THEN P10 ELSE IF FLt(P90, v) THEN P90 ELSE v

\* the weighted average of xs over the surviving models, base weights
\* renormalized over them
SurvivingAverage(xs) ==
    FDiv(DictSum([nm \in Surviving |-> FMul(base(biz)[nm], xs[nm])], Surviving),
         DictSum(base(biz), Surviving))

\* C12: with two or three surviving models, adjustedBlend is the weighted
\* average, with the renormalized weights of rawBlend, of the surviving values
\* each clipped into [p10, p90], the percentiles (linear interpolation) of the
\* surviving values only; the reported winsorized values are those clipped
\* values.
C12_WinsorizedBlend ==
    (pc = "done" /\ Cardinality(Surviving) >= 2) =>
        /\ raw_blend = SurvivingAverage(model_values)
        /\ win_blend = SurvivingAverage([nm \in Surviving |->
                                            Clipped(model_values[nm])])
        /\ DOMAIN values_used.winsorized = Surviving
        /\ \A nm \in Surviving :
              values_used.winsorized[nm] = Clipped(model_values[nm])

\* C12 witness: three distinct surviving values, two of them clipped, and an
\* adjusted blend that differs from the raw one.
C12_Witness ==
    /\ pc = "done"
    /\ Cardinality(Surviving) = 3
    /\ FLt(LeastValue, MiddleValue) /\ FLt(MiddleValue, GreatestValue)
    /\ win_blend # raw_blend
    /\ \E nm \in Surviving : values_used.winsorized[nm] = P10
    /\ \E nm \in Surviving : values_used.winsorized[nm] = P90

\* C13: buyPrice = fairValue x (1 - mos), mos being the slider's percentage
\* as a fraction, with fairValue the winsorized blend, or the raw blend when
\* there is no winsorized one; buyPrice is absent exactly when fairValue is.
C13_MosBuyPrice ==
    pc = "done" =>
        /\ win_blend # None => intelligent_fair = win_blend
        /\ win_blend = None => intelligent_fair = raw_blend
        /\ mos_buy = None <=> intelligent_fair = None
        /\ intelligent_fair # None =>
              /\ isfinite(mos_buy)
              /\ FMul(mos_buy, F(100)) = FMul(intelligent_fair, F(100 - mos))

\* C13 witness: the largest margin of safety applied to a winsorized blend
\* that differs from the raw blend.
C13_Witness ==
    /\ pc = "done"
    /\ mos = 40
    /\ win_blend # None /\ win_blend # raw_blend
    /\ mos_buy = FMul(win_blend, Q(3, 5))


\* the figure a model adds for an absent netCash is 0 (lines 267, 301)
NetCashTerm == OrZero(net_cash)

\* C14: netCash is cash minus debt, an absent cash and an absent debt each
\* counting as 0 on its own.
C14_NetCashDefaultsIndependently ==
    pc \notin {"classify", "netcash"} =>
        NetCashTerm = FSub(OrZero(total_cash), OrZero(total_debt))


ValidDcfInputs ==
    /\ isfinite(fcf_norm) /\ FLt(F(0), fcf_norm)
    /\ isfinite(shares) /\ FLt(F(0), shares)
    /\ FLt(F(0), r) /\ FLt(r, F(1))
    /\ FLt(gT, r)
    /\ years >= 1

\* the DCF value of the same inputs with stage-1 growth g
DcfWithGrowth(g) ==
    dcf_two_stage_per_share(fcf_norm, shares, r, g, gT, years, net_cash).per_share

\* C15: for valid inputs (fcf > 0, shares > 0, 0 < r < 1, r > gT,
\* years >= 1, any netCash) the DCF value per share is strictly increasing
\* in g1: a greater g1 with everything else equal gives a strictly greater
\* value.
C15_DcfIncreasesWithG1 ==
    (pc = "epv" /\ ValidDcfInputs) =>
        \A g \in Growths : FLt(g1, g) => FLt(dcf_val, DcfWithGrowth(g))

C15_Witness ==
    /\ pc = "epv" /\ ValidDcfInputs
    /\ g1 = F(0) /\ net_cash = F(-500) /\ years > 1
    /\ isfinite(dcf_val)
    /\ FLt(dcf_val, DcfWithGrowth(Q(1, 10)))
    /\ FLt(DcfWithGrowth(Q(1, 10)), DcfWithGrowth(Q(3, 10)))


\* get_intelligent_valuation has returned at least once
Called == ret.final_fair # Unset

\* C16: get_intelligent_valuation called again on the same SmartValuer
\* returns the same fair value and archetype, leaves the same model_outputs
\* and the same confidence score as after the first call, and the score
\* stays within 0..100.
C16_RepeatedCallsAgree ==
    [][Called => (/\ ret' = ret
                  /\ model_outputs' = model_outputs
                  /\ confidence' = confidence
                  /\ confidence' \in 0..100)]_vars


\* the positions of the series' entries that are not absent
Kept(s) == {i \in 1..Len(s.items) : s.items[i].val.k \notin {"nan", "None"}}

\* the positions of the n newest entries that are not absent
Newest(s, n) ==
    {i \in Kept(s) :
        Cardinality({j \in Kept(s) : s.items[j].date > s.items[i].date}) < n}

\* the mean of the values at the positions of idx
MeanAt(s, idx) ==
    FDiv(DictSum([i \in 1..Len(s.items) |-> s.items[i].val], idx),
         F(Cardinality(idx)))

\* C17: _avg_last_n(series, 3) is absent for a series that is None, empty
\* or all absent; otherwise it is the mean of the min(3, length) newest
\* entries that are not absent, so no older entry changes it.
C17_AvgOfNewestPresent ==
    pc = "dcf" =>
        IF fcf_series = NoSeries \/ Kept(fcf_series) = {}
        THEN fcf_norm = None
        ELSE fcf_norm = MeanAt(fcf_series, Newest(fcf_series, 3))

C17_Witness ==
    /\ pc = "dcf"
    /\ Cardinality(Kept(fcf_series)) > 3
    /\ fcf_series.items[1].date < fcf_series.items[2].date
    /\ isfinite(fcf_norm)
    /\ fcf_norm # MeanAt(fcf_series, Kept(fcf_series))


\* the statement is there and has the line item
HasLine(item) ==
    /\ cashflow # NoFrame
    /\ item \in DOMAIN cashflow.rows
    /\ cashflow.rows[item] # <<>>

Line(item) == cashflow.rows[item]

\* the operating cash flow line, under either of its two names
CfoLine ==
    IF HasLine("Total Cash From Operating Activities")
    THEN "Total Cash From Operating Activities"
    ELSE "Operating Cash Flow"

\* operating cash flow plus capital expenditure, period by period
CfoPlusCapex ==
    [i \in 1..Len(Line(CfoLine)) |->
        [date |-> Line(CfoLine)[i].date,
         val  |-> FAdd(Line(CfoLine)[i].val,
                       Line("Capital Expenditures")[i].val)]]

\* C18: the free cash flow series is the direct "Free Cash Flow" line when
\* the statement has one; otherwise operating cash flow plus capital
\* expenditure, only when both lines are there; and None when the statement
\* is missing or empty or either operand is unavailable, which leaves the
\* DCF result absent.
C18_FcfFallbackChain ==
    pc \in {"normalize", "dcf", "epv"} =>
        /\ IF HasLine("Free Cash Flow")
           THEN fcf_series = Series(Line("Free Cash Flow"))
           ELSE IF HasLine(CfoLine) /\ HasLine("Capital Expenditures")
           THEN fcf_series = Series(CfoPlusCapex)
           ELSE fcf_series = NoSeries
        /\ (pc = "epv" /\ fcf_series = NoSeries) =>
               (dcf_val = None /\ model_values["DCF (Growth)"] = None)

C18_Witness ==
    /\ pc = "epv"
    /\ ~HasLine("Free Cash Flow")
    /\ HasLine("Operating Cash Flow")
    /\ ~HasLine("Capital Expenditures")
    /\ fcf_series = NoSeries
    /\ dcf_val = None


\* the model the archetype's base weights give no weight
ZeroWeightModel ==
    IF biz = "FINANCIAL" THEN "DCF (Growth)" ELSE "P/B Intrinsic"

\* the archetype gives one model no weight and a weighted model is present
ZeroWeightCase ==
    /\ biz \in {"FINANCIAL", "ASSET_LIGHT"}
    /\ \E nm \in Names \ {ZeroWeightModel} : Present(model_values[nm])

\* the blend of the same inputs with v as the unweighted model's value
BlendWith(v) ==
    blended_fair_value([model_values EXCEPT ![ZeroWeightModel] = v], biz)

\* C19 as claimed: a model of base weight 0 has no influence on the blend;
\* inputs that differ only in its value, a weighted model being present,
\* have the same rawBlend and the same adjustedBlend.
C19_ZeroWeightNoInfluence ==
    (pc = "done" /\ ZeroWeightCase) =>
        \A v \in BlendValues :
            /\ BlendWith(v).raw = raw_blend
            /\ BlendWith(v).win = win_blend

\* C19 as the code has it: such inputs have the same rawBlend; the
\* adjustedBlend is the same when the unweighted model is absent in both.
C19_ZeroWeightNoInfluenceOnRaw ==
    (pc = "done" /\ ZeroWeightCase) =>
        \A v \in BlendValues :
            /\ BlendWith(v).raw = raw_blend
            /\ (~Present(v) /\ ~Present(model_values[ZeroWeightModel])) =>
                   BlendWith(v).win = win_blend

C19_Witness ==
    /\ pc = "done" /\ ZeroWeightCase
    /\ Present(model_values[ZeroWeightModel])
    /\ isfinite(raw_blend)
    /\ BlendWith(None).raw = raw_blend
    /\ BlendWith(None).win # win_blend

=============================================================================
